---- MODULE Spec2Model ----
(***************************************************************************)
(* Market ingestion, sharp-book consensus, soft-book edge detection and     *)
(* fractional-Kelly stake sizing of the sports-betting platform.            *)
(*                                                                          *)
(* Python floats are modelled as exact rationals in lowest terms.  Every    *)
(* Python value that can reach the arithmetic (a JSON number, a JSON        *)
(* string, None) is a record [t, n, d] so that values of different Python   *)
(* types stay comparable.                                                   *)
(***************************************************************************)
EXTENDS Integers, Sequences, FiniteSets, TLC

VARIABLES
    games,        \* table games, in insertion order (row id = position)
    snapshots,    \* table odds_snapshots, in insertion order
    value_bets,   \* table value_bets, in insertion order
    now,          \* datetime.utcnow(), in seconds after 2030-01-01T00:00:00Z
    scans,        \* the find_value_bets calls so far: what each read and returned
    ing,          \* per caller: the position and locals of its ingest_odds call
    scan,         \* the position and locals of the find_value_bets call
    calc          \* a direct call of a pure function: its arguments and result

vars == <<games, snapshots, value_bets, now, scans, ing, scan, calc>>

Procs == {1, 2}     \* callers of ingest_odds (scheduler job, command line)

(***************************************************************************)
(* Bounds of the model                                                      *)
(***************************************************************************)
MaxEvents == 2      \* events in one feed response
MaxScans == 1       \* scan calls started over a behaviour
MaxRescans == 2     \* scan calls started over a behaviour with repeated scans
MaxNow == 1         \* the wall clock stops advancing here
MaxSnapshots == 4   \* the feed stops quoting once odds_snapshots holds this many rows
MaxProbDen == 5     \* probabilities passed to remove_vig are k/d with d up to this

(***************************************************************************)
(* Python values                                                            *)
(***************************************************************************)
Abs(x) == IF x < 0 THEN -x ELSE x

RECURSIVE GCD(_, _)
GCD(a, b) == IF b = 0 THEN a ELSE GCD(b, a % b)

PyNone == [t |-> "none", n |-> 0, d |-> 1]
PyStr == [t |-> "str", n |-> 0, d |-> 1]

\* the float n/d, in lowest terms with a positive denominator (d # 0)
Num(n, d) ==
    LET g == GCD(Abs(n), Abs(d))
        s == IF d < 0 THEN -1 ELSE 1
    IN [t |-> "num", n |-> (s * n) \div g, d |-> (s * d) \div g]

IsNum(v) == v.t = "num"
IsNone(v) == v.t = "none"
\* Python truthiness: None and 0 are falsy, a non-empty string is truthy
Truthy(v) == (v.t = "str") \/ (v.t = "num" /\ v.n # 0)

RAdd(a, b) == Num(a.n * b.d + b.n * a.d, a.d * b.d)
RSub(a, b) == Num(a.n * b.d - b.n * a.d, a.d * b.d)
RMul(a, b) == Num(a.n * b.n, a.d * b.d)
RDiv(a, b) == Num(a.n * b.d, a.d * b.n)
RLt(a, b) == a.n * b.d < b.n * a.d
RLe(a, b) == a.n * b.d <= b.n * a.d
RMax(a, b) == IF RLt(a, b) THEN b ELSE a
RMin(a, b) == IF RLt(b, a) THEN b ELSE a
Zero == Num(0, 1)
One == Num(1, 1)
Hundred == Num(100, 1)

(***************************************************************************)
(* config/settings.py                                                       *)
(***************************************************************************)
SHARP_BOOKS == {"pinnacle", "betfair"}
SOFT_BOOKS == {"draftkings", "fanduel", "bet365", "betmgm"}
ALL_BOOKS == SHARP_BOOKS \cup SOFT_BOOKS
MIN_EDGE_PERCENT == Num(5, 1)
MIN_PROBABILITY == Num(35, 100)
KELLY_FRACTION == Num(25, 100)
DEFAULT_BANKROLL == Num(1000, 1)
MAX_BET_PERCENT == Num(5, 100)

(***************************************************************************)
(* The upstream feed (spec section 6): concrete event objects               *)
(***************************************************************************)
Outcome(name, price) == [name |-> name, price |-> price]
Market(outs) == [outcomes |-> outs]
\* a missing or empty string field is "" (both are falsy in Python)
Block(key, markets) == [dict |-> TRUE, key |-> key, markets |-> markets]
NotADictBlock == [dict |-> FALSE, key |-> "", markets |-> <<>>]
H2H(key, home, away, h, a) ==
    Block(key, <<Market(<<Outcome(home, h), Outcome(away, a)>>)>>)
H2HDraw(key, home, away, h, a, x) ==
    Block(key, <<Market(<<Outcome(home, h), Outcome(away, a), Outcome("Draw", x)>>)>>)
Event(id, home, away, time, bks) ==
    [dict |-> TRUE, id |-> id, home_team |-> home, away_team |-> away,
     commence_time |-> time, bookmakers |-> bks]
NotADictEvent ==
    [dict |-> FALSE, id |-> "", home_team |-> "", away_team |-> "",
     commence_time |-> "", bookmakers |-> <<>>]

EarlyTime == "2030-01-01T00:00:01Z"
LateTime == "2030-01-01T00:00:09Z"

\* events the feed can return; every branch of ingest_odds has an event here
QuotedEvent ==
    Event("ev1", "Lakers", "Celtics", LateTime,
          << H2H("pinnacle", "Lakers", "Celtics", Num(5, 3), Num(2, 1)),
             H2H("draftkings", "Lakers", "Celtics", Num(9, 5), Num(2, 1)) >>)
BadPriceEvent ==
    Event("ev1", "Lakers", "Celtics", LateTime,
          << H2H("pinnacle", "Lakers", "Celtics", Num(2, 1), Num(2, 1)),
             H2H("betfair", "Lakers", "Celtics", PyStr, Num(2, 1)) >>)
SkippedBlocksEvent ==
    Event("ev1", "Lakers", "Celtics", LateTime,
          << Block("", <<Market(<<Outcome("Lakers", Num(2, 1))>>)>>),
             H2H("unibet", "Lakers", "Celtics", Num(2, 1), Num(2, 1)),
             Block("betmgm", <<>>),
             Block("betmgm", <<Market(<<>>)>>),
             Block("bet365", <<Market(<<Outcome("Celtics", Num(2, 1))>>)>>),
             H2H("fanduel", "Lakers", "Celtics", Num(0, 1), Num(2, 1)),
             H2H("draftkings", "Lakers", "Celtics", Num(-2, 1), Num(2, 1)),
             H2H("pinnacle", "Lakers", "Celtics", Num(5, 2), Num(5, 3)) >>)
DrawEvent ==
    Event("ev2", "Arsenal", "Chelsea", LateTime,
          << H2HDraw("pinnacle", "Arsenal", "Chelsea", Num(5, 2), Num(3, 1), Num(0, 1)),
             H2HDraw("betfair", "Arsenal", "Chelsea", Num(2, 1), Num(4, 1), Num(4, 1)) >>)
BadBlockEvent ==
    Event("ev2", "Arsenal", "Chelsea", EarlyTime,
          << H2H("fanduel", "Arsenal", "Chelsea", Num(3, 1), Num(3, 2)),
             NotADictBlock >>)
SoftOnlyEvent ==
    Event("ev2", "Arsenal", "Chelsea", EarlyTime,
          << H2H("bet365", "Arsenal", "Chelsea", Num(3, 1), Num(3, 2)) >>)
\* a three-way market quoted by a sharp and by a soft bookmaker
DrawEdgeEvent ==
    Event("ev2", "Arsenal", "Chelsea", LateTime,
          << H2HDraw("pinnacle", "Arsenal", "Chelsea", Num(5, 2), Num(3, 1), Num(4, 1)),
             H2HDraw("bet365", "Arsenal", "Chelsea", Num(2, 1), Num(3, 1), Num(5, 1)) >>)
\* the same fixture quoted by a sharp bookmaker as a two-way market
TwoWayEvent ==
    Event("ev2", "Arsenal", "Chelsea", LateTime,
          << H2H("pinnacle", "Arsenal", "Chelsea", Num(2, 1), Num(2, 1)) >>)
\* a sharp bookmaker quoting a negative home price
NegativeSharpEvent ==
    Event("ev1", "Lakers", "Celtics", LateTime,
          << H2H("betfair", "Lakers", "Celtics", Num(-5, 2), Num(2, 1)),
             H2H("fanduel", "Lakers", "Celtics", Num(3, 1), Num(2, 1)) >>)
\* a fixture about to start, quoted by a sharp and by a soft bookmaker
EarlyQuotedEvent ==
    Event("ev2", "Arsenal", "Chelsea", EarlyTime,
          << H2H("pinnacle", "Arsenal", "Chelsea", Num(2, 1), Num(2, 1)),
             H2H("fanduel", "Arsenal", "Chelsea", Num(3, 1), Num(3, 2)) >>)
NoIdEvent ==
    Event("", "Lakers", "Celtics", LateTime,
          << H2H("pinnacle", "Lakers", "Celtics", Num(2, 1), Num(2, 1)) >>)
BadTimeEvent == Event("ev1", "Lakers", "Celtics", "tomorrow", <<>>)
NoBookmakersEvent == Event("ev2", "Arsenal", "Chelsea", LateTime, <<>>)

EventPool ==
    { QuotedEvent, BadPriceEvent, SkippedBlocksEvent, DrawEvent, BadBlockEvent,
      SoftOnlyEvent, DrawEdgeEvent, TwoWayEvent, NegativeSharpEvent,
      EarlyQuotedEvent, NoIdEvent, BadTimeEvent,
      NoBookmakersEvent, NotADictEvent }

\* the events that leave rows for a scan to read
StoredPool ==
    { QuotedEvent, SkippedBlocksEvent, DrawEvent, SoftOnlyEvent, NoBookmakersEvent }

\* the events fed between repeated scans: one fixture that starts late, one
\* that starts while the clock runs, each with an edge at a soft bookmaker
RescanPool == { QuotedEvent, EarlyQuotedEvent }

\* the events fed while a scan is running: two quotes of one fixture
OverlapPool == { SkippedBlocksEvent, QuotedEvent }

\* the events two concurrent callers are fed
RacePool == { QuotedEvent, SkippedBlocksEvent, SoftOnlyEvent }

\* the outcome of the HTTP GET: transport status and the decoded JSON body;
\* items is the length of a JSON list or the number of keys of a JSON object
Responses ==
    [status : {"ok", "http_error", "network_error"},
     json : {"list", "object", "invalid"},
     items : 0..MaxEvents]

(***************************************************************************)
(* services/odds_fetcher.py                                                 *)
(***************************************************************************)
\* lines 54-70: the GET raised, the body did not parse, or it is not a list
FeedFailed(resp) == resp.status # "ok" \/ resp.json # "list"

\* get_upcoming_odds without the isinstance(data, list) check: a JSON object
\* is returned as it is, and iterating it yields its keys
get_upcoming_odds_unchecked(resp) ==
    IF resp.status = "ok" /\ resp.json \in {"list", "object"}
    THEN [n |-> resp.items, of |-> IF resp.json = "list" THEN "events" ELSE "keys"]
    ELSE [n |-> 0, of |-> "events"]

\* the list get_upcoming_odds returns: its length, and what iterating yields
get_upcoming_odds(resp) ==
    IF resp.status = "ok" /\ resp.json = "list"
    THEN [n |-> resp.items, of |-> "events"]
    ELSE [n |-> 0, of |-> "events"]

\* datetime.fromisoformat(s.replace('Z', '+00:00')): seconds, or -1 for ValueError
fromisoformat(str) ==
    CASE str = EarlyTime -> 1
      [] str = LateTime -> 9
      [] OTHER -> -1

\* {o.get('name'): o.get('price') for o in outcomes}.get(name): the last
\* outcome carrying the name wins, None when no outcome carries it
RECURSIVE outcome_map_get(_, _, _)
outcome_map_get(outcomes, name, i) ==
    IF i = 0 THEN PyNone
    ELSE IF outcomes[i].name = name THEN outcomes[i].price
    ELSE outcome_map_get(outcomes, name, i - 1)

\* 1.0 / x for a number x # 0
Reciprocal(x) == RDiv(One, x)

\* one pass of the loop body over a bookmaker block (lines 128-173):
\* "skip" (continue), "raise" (an exception leaves the loop) or "add"
BookmakerStep(event, b) ==
    LET skip == [kind |-> "skip", row |-> PyNone]
        raise == [kind |-> "raise", row |-> PyNone]
    IN IF ~b.dict THEN raise
       ELSE IF b.key = "" THEN skip
       ELSE IF b.key \notin ALL_BOOKS THEN skip
       ELSE IF b.markets = <<>> THEN skip
       ELSE LET outcomes == b.markets[1].outcomes
                home_odds == outcome_map_get(outcomes, event.home_team, Len(outcomes))
                away_odds == outcome_map_get(outcomes, event.away_team, Len(outcomes))
                draw_odds == outcome_map_get(outcomes, "Draw", Len(outcomes))
            IN IF outcomes = <<>> THEN skip
               ELSE IF ~Truthy(home_odds) \/ ~Truthy(away_odds) THEN skip
               ELSE IF ~IsNum(home_odds) \/ ~IsNum(away_odds) THEN raise
               ELSE IF Truthy(draw_odds) /\ ~IsNum(draw_odds) THEN raise
               ELSE [kind |-> "add",
                     row |-> [bookmaker |-> b.key,
                              home_odds |-> home_odds,
                              away_odds |-> away_odds,
                              draw_odds |-> draw_odds,
                              home_implied_prob |-> Reciprocal(home_odds),
                              away_implied_prob |-> Reciprocal(away_odds),
                              draw_implied_prob |->
                                  IF Truthy(draw_odds) THEN Reciprocal(draw_odds)
                                  ELSE PyNone]]

\* the loop over event['bookmakers'] from block i on: the rows added to the
\* session, ingested_count's increase, and whether an exception ended the loop
NoRows == [rows |-> <<>>, count |-> 0, raised |-> FALSE]

RECURSIVE BookmakerLoop(_, _, _)
BookmakerLoop(event, i, acc) ==
    IF i > Len(event.bookmakers) THEN acc
    ELSE LET step == BookmakerStep(event, event.bookmakers[i])
         IN CASE step.kind = "raise" -> [acc EXCEPT !.raised = TRUE]
              [] step.kind = "skip" -> BookmakerLoop(event, i + 1, acc)
              [] OTHER -> BookmakerLoop(event, i + 1,
                              [acc EXCEPT !.rows = Append(@, step.row),
                                          !.count = @ + 1])

\* db.query(Game).filter_by(odds_api_id=event_id).first(): a row id, or 0
RECURSIVE GameByApiId(_, _)
GameByApiId(event_id, i) ==
    IF i > Len(games) THEN 0
    ELSE IF games[i].odds_api_id = event_id THEN i
    ELSE GameByApiId(event_id, i + 1)

\* a bookmaker block the spec calls storable: allow-listed bookmaker, home
\* and away price present and positive, draw price absent or positive
WellFormedBlock(event, b) ==
    /\ b.dict
    /\ b.key \in ALL_BOOKS
    /\ b.markets # <<>>
    /\ LET outcomes == b.markets[1].outcomes
           h == outcome_map_get(outcomes, event.home_team, Len(outcomes))
           a == outcome_map_get(outcomes, event.away_team, Len(outcomes))
           x == outcome_map_get(outcomes, "Draw", Len(outcomes))
       IN /\ IsNum(h) /\ h.n > 0
          /\ IsNum(a) /\ a.n > 0
          /\ IsNone(x) \/ (IsNum(x) /\ x.n > 0)

WellFormedCount(event) ==
    Cardinality({i \in 1..Len(event.bookmakers) :
                    WellFormedBlock(event, event.bookmakers[i])})

IdleIngest ==
    [pc |-> "idle", left |-> 0, of |-> "events", event |-> NotADictEvent,
     commence_time |-> 0, game_id |-> 0, ingested_count |-> 0,
     feed_failed |-> FALSE, written |-> 0, wf_seen |-> 0, wf_kept |-> 0]

\* lines 82-90: open the session, fetch, return 0 on an empty list; at
\* pc "return" the call is about to return ingested_count
IngestStart(p, resp) ==
    /\ ing[p].pc = "idle"
    /\ LET events == get_upcoming_odds(resp)
       IN ing' = [ing EXCEPT ![p] =
              IF events.n = 0
              THEN [IdleIngest EXCEPT !.pc = "return",
                                      !.feed_failed = FeedFailed(resp)]
              ELSE [IdleIngest EXCEPT !.pc = "loop", !.left = events.n,
                                      !.of = events.of,
                                      !.feed_failed = FeedFailed(resp)]]
    /\ UNCHANGED <<calc, games, snapshots, value_bets, now, scans, scan>>

\* the end of one iteration of `for event in events`
NextEvent(st) ==
    [st EXCEPT !.pc = IF st.left = 1 THEN "return" ELSE "loop",
               !.left = @ - 1, !.event = NotADictEvent,
               !.commence_time = 0, !.game_id = 0]

\* lines 92-121 up to the lookup of the game: the next event of the response
IngestEvent(p, event) ==
    /\ ing[p].pc = "loop"
    /\ ing[p].left > 0
    /\ event \in (IF ing[p].of = "events" THEN EventPool ELSE {NotADictEvent})
    /\ Len(snapshots) + BookmakerLoop(event, 1, NoRows).count <= MaxSnapshots
    /\ LET st == [ing[p] EXCEPT !.event = event]
           commence_time == fromisoformat(event.commence_time)
           existing == GameByApiId(event.id, 1)
       IN ing' = [ing EXCEPT ![p] =
              IF ~event.dict
              THEN \* event.get raises, and raises again in the handler (line 183)
                   [IdleIngest EXCEPT !.pc = "raised", !.written = st.written]
              ELSE IF event.id = "" \/ event.home_team = "" \/ event.away_team = ""
                      \/ event.commence_time = ""
              THEN NextEvent(st)
              ELSE IF commence_time < 0
              THEN NextEvent(st)      \* ValueError, rollback
              ELSE IF existing = 0
              THEN [st EXCEPT !.pc = "commit_game", !.commence_time = commence_time,
                              !.wf_seen = @ + WellFormedCount(event)]
              ELSE [st EXCEPT !.pc = "bookmakers", !.game_id = existing,
                              !.wf_seen = @ + WellFormedCount(event)]]
    /\ UNCHANGED <<calc, games, snapshots, value_bets, now, scans, scan>>

\* IngestCommitGame on a games table without the unique index on odds_api_id
IngestCommitGame_no_unique_index(p) ==
    /\ ing[p].pc = "commit_game"
    /\ games' = Append(games,
           [id |-> Len(games) + 1,
            odds_api_id |-> ing[p].event.id,
            home_team |-> ing[p].event.home_team,
            away_team |-> ing[p].event.away_team,
            commence_time |-> ing[p].commence_time,
            result |-> "None"])
    /\ ing' = [ing EXCEPT ![p] =
           [@ EXCEPT !.pc = "bookmakers", !.game_id = Len(games) + 1]]
    /\ UNCHANGED <<calc, snapshots, value_bets, now, scans, scan>>

\* lines 110-119: INSERT the game and commit; the unique index on
\* odds_api_id rejects a second row (IntegrityError, line 178)
IngestCommitGame(p) ==
    /\ ing[p].pc = "commit_game"
    /\ LET st == ing[p]
       IN IF GameByApiId(st.event.id, 1) # 0
          THEN /\ ing' = [ing EXCEPT ![p] = NextEvent(st)]
               /\ UNCHANGED games
          ELSE /\ games' = Append(games,
                      [id |-> Len(games) + 1,
                       odds_api_id |-> st.event.id,
                       home_team |-> st.event.home_team,
                       away_team |-> st.event.away_team,
                       commence_time |-> st.commence_time,
                       result |-> "None"])
               /\ ing' = [ing EXCEPT ![p] =
                      [st EXCEPT !.pc = "bookmakers", !.game_id = Len(games) + 1]]
    /\ UNCHANGED <<calc, snapshots, value_bets, now, scans, scan>>

\* the rows of one commit, numbered in insertion order; no snapshot_time is
\* passed to OddsSnapshot(...), so the column default datetime.utcnow stamps
\* each row with the clock reading of the flush
StoredRows(rows, game_id) ==
    [i \in 1..Len(rows) |->
        [id |-> Len(snapshots) + i,
         game_id |-> game_id,
         bookmaker |-> rows[i].bookmaker,
         home_odds |-> rows[i].home_odds,
         away_odds |-> rows[i].away_odds,
         draw_odds |-> rows[i].draw_odds,
         home_implied_prob |-> rows[i].home_implied_prob,
         away_implied_prob |-> rows[i].away_implied_prob,
         draw_implied_prob |-> rows[i].draw_implied_prob,
         snapshot_time |-> now]]

\* IngestBookmakers that keeps one set of quotes per game: the commit
\* replaces the game's stored snapshots instead of appending to them
IngestBookmakers_replace(p) ==
    /\ ing[p].pc = "bookmakers"
    /\ LET st == ing[p]
           loop == BookmakerLoop(st.event, 1, NoRows)
           counted == [st EXCEPT !.ingested_count = @ + loop.count]
           OfOtherGame(row) == row.game_id # st.game_id
       IN IF loop.raised
          THEN /\ ing' = [ing EXCEPT ![p] = NextEvent(counted)]
               /\ UNCHANGED snapshots
          ELSE /\ snapshots' = SelectSeq(snapshots, OfOtherGame)
                                \o StoredRows(loop.rows, st.game_id)
               /\ ing' = [ing EXCEPT ![p] =
                      NextEvent([counted EXCEPT
                          !.written = @ + Len(loop.rows),
                          !.wf_kept = @ + WellFormedCount(st.event)])]
    /\ UNCHANGED <<calc, games, value_bets, now, scans, scan>>

\* lines 123-183: the bookmaker loop of the event, then commit or rollback
IngestBookmakers(p) ==
    /\ ing[p].pc = "bookmakers"
    /\ LET st == ing[p]
           loop == BookmakerLoop(st.event, 1, NoRows)
           counted == [st EXCEPT !.ingested_count = @ + loop.count]
       IN IF loop.raised
          THEN /\ ing' = [ing EXCEPT ![p] = NextEvent(counted)]
               /\ UNCHANGED snapshots
          ELSE /\ snapshots' = snapshots \o StoredRows(loop.rows, st.game_id)
               /\ ing' = [ing EXCEPT ![p] =
                      NextEvent([counted EXCEPT
                          !.written = @ + Len(loop.rows),
                          !.wf_kept = @ + WellFormedCount(st.event)])]
    /\ UNCHANGED <<calc, games, value_bets, now, scans, scan>>

\* lines 185-186: close the session and return ingested_count
IngestReturn(p) ==
    /\ ing[p].pc = "return"
    /\ ing' = [ing EXCEPT ![p] = IdleIngest]
    /\ UNCHANGED <<calc, games, snapshots, value_bets, now, scans, scan>>

\* the exception raised in the handler at line 183 reaches the caller
IngestRaise(p) ==
    /\ ing[p].pc = "raised"
    /\ ing' = [ing EXCEPT ![p] = IdleIngest]
    /\ UNCHANGED <<calc, games, snapshots, value_bets, now, scans, scan>>

(***************************************************************************)
(* services/market_analyzer.py                                              *)
(***************************************************************************)
Reverse(s) == [i \in 1..Len(s) |-> s[Len(s) + 1 - i]]

IsOfGame(row, game_id) == row.game_id = game_id
IsSharp(row) == row.bookmaker \in {"pinnacle", "betfair"}
IsSoft(row) == row.bookmaker \in {"draftkings", "fanduel", "bet365", "betmgm"}

\* get_latest_snapshot_for_game ending in .first(): the latest snapshot only
get_latest_snapshot_only(game_id) ==
    LET OfGame(row) == IsOfGame(row, game_id)
        all == Reverse(SelectSeq(snapshots, OfGame))
    IN IF all = <<>> THEN <<>> ELSE <<all[1]>>

\* the snapshots of the game, latest snapshot_time first; the clock never
\* runs backwards here, so that is the reverse of the insertion order
get_latest_snapshot_for_game(game_id) ==
    LET OfGame(row) == IsOfGame(row, game_id)
    IN Reverse(SelectSeq(snapshots, OfGame))

\* calculate_vig that forgets to subtract 1.0
calculate_vig_no_offset(home_prob, away_prob, draw_prob) ==
    LET total_prob == RAdd(RAdd(home_prob, away_prob),
                           IF Truthy(draw_prob) THEN draw_prob ELSE Zero)
    IN [total_probability |-> total_prob,
        vig |-> total_prob,
        vig_percent |-> IF RLt(Zero, total_prob) THEN Hundred ELSE Zero]

calculate_vig(home_prob, away_prob, draw_prob) ==
    LET total_prob == RAdd(RAdd(home_prob, away_prob),
                           IF Truthy(draw_prob) THEN draw_prob ELSE Zero)
        vig == RSub(total_prob, One)
    IN [total_probability |-> total_prob,
        vig |-> vig,
        vig_percent |-> IF RLt(Zero, total_prob)
                        THEN RMul(RDiv(vig, total_prob), Hundred)
                        ELSE Zero]

\* kind "raise": 1 + vig = 0 and the division raises ZeroDivisionError
remove_vig(home_prob, away_prob, draw_prob) ==
    LET vig_data == calculate_vig(home_prob, away_prob, draw_prob)
        divisor == RAdd(One, vig_data.vig)
    IN IF vig_data.vig = Zero
       THEN [kind |-> "ok", home |-> home_prob, away |-> away_prob,
             draw |-> draw_prob, vig_removed |-> Zero]
       ELSE IF divisor = Zero
       THEN [kind |-> "raise", home |-> PyNone, away |-> PyNone,
             draw |-> PyNone, vig_removed |-> Zero]
       ELSE [kind |-> "ok",
             home |-> RDiv(home_prob, divisor),
             away |-> RDiv(away_prob, divisor),
             draw |-> IF Truthy(draw_prob) THEN RDiv(draw_prob, divisor) ELSE PyNone,
             vig_removed |-> vig_data.vig_percent]

\* sum(...) of one column over rows i..Len(rows), starting from acc
RECURSIVE SumHome(_, _, _)
SumHome(rows, i, acc) ==
    IF i > Len(rows) THEN acc
    ELSE SumHome(rows, i + 1, RAdd(acc, rows[i].home_implied_prob))

RECURSIVE SumAway(_, _, _)
SumAway(rows, i, acc) ==
    IF i > Len(rows) THEN acc
    ELSE SumAway(rows, i + 1, RAdd(acc, rows[i].away_implied_prob))

\* adding None to a number raises TypeError: the sum, or PyNone for the raise
RECURSIVE SumDraw(_, _, _)
SumDraw(rows, i, acc) ==
    IF i > Len(rows) THEN acc
    ELSE IF ~IsNum(rows[i].draw_implied_prob) THEN PyNone
    ELSE SumDraw(rows, i + 1, RAdd(acc, rows[i].draw_implied_prob))

NoConsensus ==
    [kind |-> "none", home_probability |-> PyNone, away_probability |-> PyNone,
     draw_probability |-> PyNone, source_count |-> 0, consensus_type |-> "sharp"]

ConsensusRaised == [NoConsensus EXCEPT !.kind = "raise"]

\* get_market_consensus that ignores use_sharp_only and averages every book
get_market_consensus_all_books(game_id, use_sharp_only) ==
    LET used == get_latest_snapshot_for_game(game_id)
        len == Num(Len(used), 1)
        draw_sum == SumDraw(used, 1, Zero)
    IN IF used = <<>> THEN NoConsensus
       ELSE IF IsNum(used[1].draw_implied_prob) /\ ~IsNum(draw_sum)
       THEN ConsensusRaised
       ELSE [kind |-> "ok",
             home_probability |-> RDiv(SumHome(used, 1, Zero), len),
             away_probability |-> RDiv(SumAway(used, 1, Zero), len),
             draw_probability |-> IF IsNum(used[1].draw_implied_prob)
                                  THEN RDiv(draw_sum, len)
                                  ELSE PyNone,
             source_count |-> Len(used),
             consensus_type |-> "sharp"]

get_market_consensus(game_id, use_sharp_only) ==
    LET all == get_latest_snapshot_for_game(game_id)
        used == IF use_sharp_only THEN SelectSeq(all, IsSharp) ELSE all
        len == Num(Len(used), 1)
        draw_sum == SumDraw(used, 1, Zero)
    IN IF all = <<>> THEN NoConsensus
       ELSE IF used = <<>> THEN NoConsensus
       ELSE IF IsNum(used[1].draw_implied_prob) /\ ~IsNum(draw_sum)
       THEN ConsensusRaised
       ELSE [kind |-> "ok",
             home_probability |-> RDiv(SumHome(used, 1, Zero), len),
             away_probability |-> RDiv(SumAway(used, 1, Zero), len),
             draw_probability |-> IF IsNum(used[1].draw_implied_prob)
                                  THEN RDiv(draw_sum, len)
                                  ELSE PyNone,
             source_count |-> Len(used),
             consensus_type |-> IF use_sharp_only THEN "sharp" ELSE "all"]

\* ((offered / fair_odds) - 1) * 100 with fair_odds = 1.0 / probability
EdgePercent(offered, probability) ==
    RMul(RSub(RDiv(offered, Reciprocal(probability)), One), Hundred)

Discrepancy(snap, selection, offered, soft_prob, probability) ==
    [bookmaker |-> snap.bookmaker,
     selection |-> selection,
     offered_odds |-> offered,
     fair_odds |-> Reciprocal(probability),
     edge_percent |-> EdgePercent(offered, probability),
     implied_prob_soft |-> soft_prob,
     implied_prob_consensus |-> probability]

\* the loop over soft_snapshots (lines 138-167) from row i on
RECURSIVE DiscrepancyLoop(_, _, _, _, _)
DiscrepancyLoop(soft, i, consensus, min_edge_percent, acc) ==
    IF i > Len(soft) THEN [kind |-> "ok", list |-> acc]
    ELSE IF consensus.home_probability = Zero \/ consensus.away_probability = Zero
    THEN [kind |-> "raise", list |-> <<>>]      \* ZeroDivisionError
    ELSE LET snap == soft[i]
             home == Discrepancy(snap, "Home", snap.home_odds,
                                 snap.home_implied_prob, consensus.home_probability)
             away == Discrepancy(snap, "Away", snap.away_odds,
                                 snap.away_implied_prob, consensus.away_probability)
             with_home == IF RLe(min_edge_percent, home.edge_percent)
                          THEN Append(acc, home) ELSE acc
             with_away == IF RLe(min_edge_percent, away.edge_percent)
                          THEN Append(with_home, away) ELSE with_home
         IN DiscrepancyLoop(soft, i + 1, consensus, min_edge_percent, with_away)

identify_soft_book_discrepancies(game_id, min_edge_percent) ==
    LET all == get_latest_snapshot_for_game(game_id)
        consensus == get_market_consensus(game_id, TRUE)
    IN CASE consensus.kind = "raise" -> [kind |-> "raise", list |-> <<>>]
         [] consensus.kind = "none" -> [kind |-> "ok", list |-> <<>>]
         [] OTHER -> DiscrepancyLoop(SelectSeq(all, IsSoft), 1, consensus,
                                     min_edge_percent, <<>>)

(***************************************************************************)
(* services/value_finder.py                                                 *)
(***************************************************************************)
\* calculate_kelly_bet without the cap at bankroll * MAX_BET_PERCENT
calculate_kelly_bet_uncapped(win_prob, odds, bankroll, kelly_fraction) ==
    LET b == RSub(odds, One)
        q == RSub(One, win_prob)
        full_kelly == RDiv(RSub(RMul(b, win_prob), q), b)
        kelly_pct == RMax(Zero, RMul(full_kelly, kelly_fraction))
        bet_size == RMul(bankroll, kelly_pct)
    IN IF RLe(b, Zero) \/ RLe(odds, One) THEN Zero
       ELSE RMax(Zero, bet_size)

\* calculate_kelly_bet that stakes the full Kelly fraction
calculate_kelly_bet_full_kelly(win_prob, odds, bankroll, kelly_fraction) ==
    LET b == RSub(odds, One)
        q == RSub(One, win_prob)
        full_kelly == RDiv(RSub(RMul(b, win_prob), q), b)
        kelly_pct == RMax(Zero, full_kelly)
        bet_size == RMul(bankroll, kelly_pct)
    IN IF RLe(b, Zero) \/ RLe(odds, One) THEN Zero
       ELSE RMax(Zero, RMin(bet_size, RMul(bankroll, MAX_BET_PERCENT)))

calculate_kelly_bet(win_prob, odds, bankroll, kelly_fraction) ==
    LET b == RSub(odds, One)
        q == RSub(One, win_prob)
        full_kelly == RDiv(RSub(RMul(b, win_prob), q), b)
        kelly_pct == RMax(Zero, RMul(full_kelly, kelly_fraction))
        bet_size == RMul(bankroll, kelly_pct)
    IN IF RLe(b, Zero) \/ RLe(odds, One) THEN Zero
       ELSE RMax(Zero, RMin(bet_size, RMul(bankroll, MAX_BET_PERCENT)))

\* thresholds a caller passes to find_value_bets
MinEdgePercents == {MIN_EDGE_PERCENT, Zero}
MinProbabilities == {MIN_PROBABILITY}

IdleScan ==
    [pc |-> "idle", games |-> <<>>, gi |-> 0, consensus |-> NoConsensus,
     min_edge_percent |-> Zero, min_probability |-> Zero, at |-> 0,
     pending |-> <<>>]

\* the query without the filter on Game.result
IsUpcoming_any_result(game) == game.commence_time > now

\* Game.result IS NULL AND Game.commence_time > utcnow()
IsUpcoming(game) == game.result = "None" /\ game.commence_time > now

\* lines 67-73: the query for the upcoming games
ScanStart(min_edge_percent, min_probability) ==
    /\ scan.pc = "idle"
    /\ scans' = Append(scans,
           [at |-> now,
            min_edge_percent |-> min_edge_percent,
            min_probability |-> min_probability,
            games |-> games,
            snapshot_count |-> Len(snapshots),
            outcome |-> "running",
            batch |-> <<>>])
    /\ LET upcoming == SelectSeq(games, IsUpcoming)
       IN scan' = [IdleScan EXCEPT
              !.pc = IF upcoming = <<>> THEN "commit" ELSE "consensus",
              !.games = upcoming,
              !.gi = 1,
              !.at = now,
              !.min_edge_percent = min_edge_percent,
              !.min_probability = min_probability]
    /\ UNCHANGED <<calc, games, snapshots, value_bets, now, ing>>

\* the end of one iteration of `for game in games`
NextGame(st) ==
    [st EXCEPT !.gi = @ + 1,
               !.pc = IF st.gi >= Len(st.games) THEN "commit" ELSE "consensus"]

\* an exception leaves find_value_bets; the session is never committed
ScanRaised(st) ==
    [IdleScan EXCEPT !.pc = "raised"]

\* lines 76-79: the scan's own consensus lookup for the current game
ScanConsensus ==
    /\ scan.pc = "consensus"
    /\ LET consensus == get_market_consensus(scan.games[scan.gi].id, TRUE)
       IN scan' = CASE consensus.kind = "raise" -> ScanRaised(scan)
                    [] consensus.kind = "none" -> NextGame(scan)
                    [] OTHER -> [scan EXCEPT !.pc = "discrepancies",
                                             !.consensus = consensus]
    /\ UNCHANGED <<calc, games, snapshots, value_bets, now, scans, ing>>

\* lines 104-117: the ValueBet built for one discrepancy
NewValueBet(game, disc, my_prob) ==
    [game_id |-> game.id,
     home_team |-> game.home_team,
     away_team |-> game.away_team,
     betting_selection |-> disc.selection,
     my_probability |-> my_prob,
     market_probability |-> disc.implied_prob_consensus,
     offered_odds |-> disc.offered_odds,
     fair_odds |-> disc.fair_odds,
     edge_percent |-> disc.edge_percent,
     bookmaker |-> disc.bookmaker,
     kelly_fraction |-> KELLY_FRACTION,
     recommended_stake |-> calculate_kelly_bet(my_prob, disc.offered_odds,
                                                DEFAULT_BANKROLL, KELLY_FRACTION)]

\* lines 87-120: the loop over the discrepancies from entry i on
RECURSIVE ValueBetLoop(_, _, _, _, _, _)
ValueBetLoop(game, discs, i, consensus, min_probability, acc) ==
    IF i > Len(discs) THEN acc
    ELSE LET disc == discs[i]
             my_prob == IF disc.selection = "Home"
                        THEN consensus.home_probability
                        ELSE consensus.away_probability
         IN ValueBetLoop(game, discs, i + 1, consensus, min_probability,
                IF RLt(my_prob, min_probability) THEN acc
                ELSE Append(acc, NewValueBet(game, disc, my_prob)))

\* lines 81-120: the edge detector's own lookups, then the ValueBets added
\* to the session for the current game
ScanDiscrepancies ==
    /\ scan.pc = "discrepancies"
    /\ LET game == scan.games[scan.gi]
           found == identify_soft_book_discrepancies(game.id, scan.min_edge_percent)
       IN scan' = IF found.kind = "raise" THEN ScanRaised(scan)
                  ELSE NextGame([scan EXCEPT !.pending =
                           ValueBetLoop(game, found.list, 1, scan.consensus,
                                        scan.min_probability, @)])
    /\ UNCHANGED <<calc, games, snapshots, value_bets, now, scans, ing>>

\* a commit that leaves out the opportunities value_bets already holds
ScanCommit_skip_known ==
    /\ scan.pc = "commit"
    /\ LET Known(bet) == \E i \in 1..Len(value_bets) : value_bets[i].bet = bet
           IsNew(bet) == ~Known(bet)
           fresh == SelectSeq(scan.pending, IsNew)
       IN /\ value_bets' = value_bets \o
                 [i \in 1..Len(fresh) |->
                     [id |-> Len(value_bets) + i,
                      bet |-> fresh[i],
                      scan |-> Len(scans),
                      scanned_at |-> scan.at,
                      min_edge_percent |-> scan.min_edge_percent,
                      min_probability |-> scan.min_probability]]
          /\ scans' = [scans EXCEPT ![Len(scans)] =
                          [@ EXCEPT !.outcome = "returned", !.batch = fresh]]
    /\ scan' = IdleScan
    /\ UNCHANGED <<calc, games, snapshots, now, ing>>

\* lines 134-138: commit the session and return the pending batch
ScanCommit ==
    /\ scan.pc = "commit"
    /\ value_bets' = value_bets \o
           [i \in 1..Len(scan.pending) |->
               [id |-> Len(value_bets) + i,
                bet |-> scan.pending[i],
                scan |-> Len(scans),
                scanned_at |-> scan.at,
                min_edge_percent |-> scan.min_edge_percent,
                min_probability |-> scan.min_probability]]
    /\ scans' = [scans EXCEPT ![Len(scans)] =
                    [@ EXCEPT !.outcome = "returned", !.batch = scan.pending]]
    /\ scan' = IdleScan
    /\ UNCHANGED <<calc, games, snapshots, now, ing>>

\* the exception reaches the caller of find_value_bets
ScanRaise ==
    /\ scan.pc = "raised"
    /\ scans' = [scans EXCEPT ![Len(scans)] = [@ EXCEPT !.outcome = "raised"]]
    /\ scan' = IdleScan
    /\ UNCHANGED <<calc, games, snapshots, value_bets, now, ing>>

\* the result of a game is entered into games.result ('H', 'A' or 'D') by
\* whoever maintains the table; no function of the repository writes it
RecordResult(g) ==
    /\ g \in 1..Len(games)
    /\ games[g].result = "None"
    /\ games' = [games EXCEPT ![g].result = "H"]
    /\ UNCHANGED <<calc, snapshots, value_bets, now, scans, ing, scan>>

\* time passes
Tick ==
    /\ now < MaxNow
    /\ now' = now + 1
    /\ UNCHANGED <<calc, games, snapshots, value_bets, scans, ing, scan>>

NoCall ==
    [fn |-> "none", home_prob |-> Zero, away_prob |-> Zero, draw_prob |-> PyNone,
     done |-> FALSE,
     result |-> [kind |-> "none", home |-> PyNone, away |-> PyNone,
                 draw |-> PyNone, vig_removed |-> Zero]]

\* empty tables, no call in progress
Idle ==
    /\ games = <<>>
    /\ snapshots = <<>>
    /\ value_bets = <<>>
    /\ now = 0
    /\ scans = <<>>
    /\ ing = [p \in Procs |-> IdleIngest]
    /\ scan = IdleScan

Init == Idle /\ calc = NoCall

\* no call is in progress
Quiescent == scan.pc = "idle" /\ \A p \in Procs : ing[p].pc = "idle"

\* section 5 of the spec: one caller, one call at a time.
\* Ingestion alone, over every kind of event
NextIngest ==
    \/ Quiescent /\ \E resp \in Responses : IngestStart(1, resp)
    \/ \E event \in EventPool : IngestEvent(1, event)
    \/ IngestCommitGame(1)
    \/ IngestBookmakers(1)
    \/ IngestReturn(1)
    \/ IngestRaise(1)

SpecIngest == Init /\ [][NextIngest]_vars

\* ingestion and scans over every kind of stored row, one call at a time
Next ==
    \/ Quiescent /\ \E resp \in Responses : IngestStart(1, resp)
    \/ \E event \in StoredPool : IngestEvent(1, event)
    \/ IngestCommitGame(1)
    \/ IngestBookmakers(1)
    \/ IngestReturn(1)
    \/ /\ Quiescent
       /\ Len(scans) < MaxScans
       /\ \E e \in MinEdgePercents, m \in MinProbabilities : ScanStart(e, m)
    \/ ScanConsensus
    \/ ScanDiscrepancies
    \/ ScanCommit
    \/ ScanRaise

Spec == Init /\ [][Next]_vars

\* repeated scans, one call at a time, while fixtures are ingested, start and
\* get their results
NextRescan ==
    \/ Quiescent /\ \E resp \in Responses : IngestStart(1, resp)
    \/ \E event \in RescanPool : IngestEvent(1, event)
    \/ IngestCommitGame(1)
    \/ IngestBookmakers(1)
    \/ IngestReturn(1)
    \/ /\ Quiescent
       /\ Len(scans) < MaxRescans
       /\ \E e \in MinEdgePercents, m \in MinProbabilities : ScanStart(e, m)
    \/ ScanConsensus
    \/ ScanDiscrepancies
    \/ ScanCommit
    \/ Quiescent /\ Tick
    \/ Quiescent /\ \E g \in 1..Len(games) : RecordResult(g)

SpecRescan == Init /\ [][NextRescan]_vars

\* a scan (run from the command line) whose database reads interleave with
\* the commits of an ingest_odds call of the scheduler
NextOverlap ==
    \/ \E resp \in Responses : IngestStart(1, resp)
    \/ \E event \in OverlapPool : IngestEvent(1, event)
    \/ IngestCommitGame(1)
    \/ IngestBookmakers(1)
    \/ IngestReturn(1)
    \/ /\ scan.pc = "idle"
       /\ Len(scans) < MaxScans
       /\ \E e \in MinEdgePercents, m \in MinProbabilities : ScanStart(e, m)
    \/ ScanConsensus
    \/ ScanDiscrepancies
    \/ ScanCommit

SpecOverlap == Init /\ [][NextOverlap]_vars

\* two callers of ingest_odds whose database operations interleave
NextRace ==
    \/ \E p \in Procs, resp \in Responses : IngestStart(p, resp)
    \/ \E p \in Procs, event \in RacePool : IngestEvent(p, event)
    \/ \E p \in Procs : IngestCommitGame(p)
    \/ \E p \in Procs : IngestBookmakers(p)
    \/ \E p \in Procs : IngestReturn(p)

SpecRace == Init /\ [][NextRace]_vars

(***************************************************************************)
(* remove_vig called directly on probabilities in [0, 1]                    *)
(***************************************************************************)
Probabilities ==
    {Num(kd[1], kd[2]) : kd \in {x \in (0..MaxProbDen) \X (1..MaxProbDen) : x[1] <= x[2]}}

InitVig ==
    /\ Idle
    /\ \E h \in Probabilities, a \in Probabilities, x \in Probabilities \cup {PyNone} :
           calc = [NoCall EXCEPT !.fn = "remove_vig", !.home_prob = h,
                                 !.away_prob = a, !.draw_prob = x]

ApplyRemoveVig ==
    /\ calc.fn = "remove_vig"
    /\ ~calc.done
    /\ calc' = [calc EXCEPT !.done = TRUE,
                            !.result = remove_vig(calc.home_prob, calc.away_prob,
                                                  calc.draw_prob)]
    /\ UNCHANGED <<games, snapshots, value_bets, now, scans, ing, scan>>

SpecVig == InitVig /\ [][ApplyRemoveVig]_vars

(***************************************************************************)
(* calculate_kelly_bet called directly                                      *)
(***************************************************************************)
\* decimal odds: below 1, exactly 1, just above 1, and ordinary prices
KellyOdds == {Num(1, 2), One, Num(101, 100), Num(9, 5), Num(2, 1), Num(5, 1)}
Bankrolls == {Num(-1000, 1), Zero, DEFAULT_BANKROLL}
KellyFractions == {Num(-1, 4), Zero, KELLY_FRACTION, One}

KellyCall(win_prob, odds, bankroll, kelly_fraction) ==
    [fn |-> "calculate_kelly_bet", win_prob |-> win_prob, odds |-> odds,
     bankroll |-> bankroll, kelly_fraction |-> kelly_fraction,
     done |-> FALSE, result |-> Zero]

InitKelly ==
    /\ Idle
    /\ \E p \in Probabilities, o \in KellyOdds, b \in Bankrolls, k \in KellyFractions :
           calc = KellyCall(p, o, b, k)

ApplyKelly ==
    /\ calc.fn = "calculate_kelly_bet"
    /\ ~calc.done
    /\ calc' = [calc EXCEPT !.done = TRUE,
                            !.result = calculate_kelly_bet(calc.win_prob, calc.odds,
                                           calc.bankroll, calc.kelly_fraction)]
    /\ UNCHANGED <<games, snapshots, value_bets, now, scans, ing, scan>>

SpecKelly == InitKelly /\ [][ApplyKelly]_vars

(***************************************************************************)
(* Properties                                                               *)
(***************************************************************************)
GameIds == 1..Len(games)
SnapshotIds == 1..Len(snapshots)

\* the stored snapshots of a game that come from a sharp bookmaker
SharpSnapshotsOf(g) ==
    {i \in SnapshotIds : snapshots[i].game_id = g /\ snapshots[i].bookmaker \in SHARP_BOOKS}
SoftSnapshotsOf(g) ==
    {i \in SnapshotIds : snapshots[i].game_id = g /\ snapshots[i].bookmaker \in SOFT_BOOKS}

RECURSIVE TotalHome(_)
TotalHome(S) ==
    IF S = {} THEN Zero
    ELSE LET i == CHOOSE x \in S : TRUE
         IN RAdd(snapshots[i].home_implied_prob, TotalHome(S \ {i}))

RECURSIVE TotalAway(_)
TotalAway(S) ==
    IF S = {} THEN Zero
    ELSE LET i == CHOOSE x \in S : TRUE
         IN RAdd(snapshots[i].away_implied_prob, TotalAway(S \ {i}))

MeanHome(S) == RDiv(TotalHome(S), Num(Cardinality(S), 1))
MeanAway(S) == RDiv(TotalAway(S), Num(Cardinality(S), 1))

\* C1: the games table holds at most one row per external identifier, and a
\* call that goes on to store snapshots for an event does so under the one row
\* that carries the event's identifier.
C1_OneGamePerIdentifier ==
    /\ \A i, j \in GameIds : games[i].odds_api_id = games[j].odds_api_id => i = j
    /\ \A p \in Procs : ing[p].pc = "bookmakers" =>
           /\ ing[p].game_id \in GameIds
           /\ games[ing[p].game_id].odds_api_id = ing[p].event.id

\* two interleaved calls sighted the same identifier: one stores under the
\* row, the other is about to insert a second row and be rejected
C1_Witness ==
    \E p, q \in Procs :
        /\ p # q
        /\ ing[p].pc = "bookmakers"
        /\ ing[q].pc = "commit_game"
        /\ ing[p].event.id = ing[q].event.id
        /\ Len(games) = 1
        /\ snapshots # <<>>

\* C2: the integer an ingest call returns is the number of OddsSnapshot rows
\* the call left persisted.
C2_ReturnIsRowsPersisted ==
    \A p \in Procs : ing[p].pc = "return" => ing[p].ingested_count = ing[p].written

\* C3: every stored OddsSnapshot has home_odds > 0 and away_odds > 0.
C3_StoredPricesPositive ==
    \A i \in SnapshotIds : snapshots[i].home_odds.n > 0 /\ snapshots[i].away_odds.n > 0

\* C4: an ingest call never raises, and between two events of the response
\* every well-formed bookmaker block of the well-formed events it has been
\* through is persisted.
C4_MalformedSkippedRestKept ==
    \A p \in Procs :
        /\ ing[p].pc # "raised"
        /\ ing[p].pc \in {"loop", "return"} => ing[p].wf_kept = ing[p].wf_seen

\* C5: a call whose feed request failed as a whole returns 0 at once, without
\* raising and without touching the tables.
C5_FeedFailureReturnsZero ==
    [][\A p \in Procs :
          (ing[p].pc = "idle" /\ ing'[p].feed_failed) =>
              /\ ing'[p].pc = "return"
              /\ ing'[p].ingested_count = 0
              /\ games' = games
              /\ snapshots' = snapshots
              /\ value_bets' = value_bets]_vars

\* a failed feed call has returned 0 while the tables hold earlier rows
C5_Witness ==
    \E p \in Procs :
        /\ ing[p].feed_failed
        /\ ing[p].pc = "return"
        /\ ing[p].ingested_count = 0
        /\ games # <<>>
        /\ snapshots # <<>>

\* C6: on every stored OddsSnapshot each implied probability times its price
\* is 1, with a draw probability exactly when a draw price is stored.
C6_ImpliedProbIsReciprocal ==
    \A i \in SnapshotIds :
        LET row == snapshots[i]
        IN /\ RMul(row.home_implied_prob, row.home_odds) = One
           /\ RMul(row.away_implied_prob, row.away_odds) = One
           /\ IsNum(row.draw_odds) =>
                  /\ IsNum(row.draw_implied_prob)
                  /\ RMul(row.draw_implied_prob, row.draw_odds) = One
           /\ IsNone(row.draw_odds) => IsNone(row.draw_implied_prob)

\* C7: a game without a sharp-bookmaker snapshot has the absent consensus, no
\* discrepancy at any threshold, and no ValueBet, stored or pending.
C7_NoSharpNoData ==
    \A g \in GameIds :
        SharpSnapshotsOf(g) = {} =>
            /\ get_market_consensus(g, TRUE) = NoConsensus
            /\ \A e \in MinEdgePercents :
                   identify_soft_book_discrepancies(g, e) = [kind |-> "ok", list |-> <<>>]
            /\ \A i \in 1..Len(value_bets) : value_bets[i].bet.game_id # g
            /\ \A i \in 1..Len(scan.pending) : scan.pending[i].game_id # g

\* a scan at threshold 0 went through an upcoming game that has soft
\* snapshots only, and is about to commit
C7_Witness ==
    /\ scan.pc = "commit"
    /\ scan.min_edge_percent = Zero
    /\ \E k \in 1..Len(scan.games) :
           /\ SharpSnapshotsOf(scan.games[k].id) = {}
           /\ SoftSnapshotsOf(scan.games[k].id) # {}

\* C8: the consensus probabilities are the averaged implied probabilities
\* divided by 1 + vig (their total), so they sum to 1 when the total is above 1.
C8_ConsensusIsDevigged ==
    \A g \in GameIds :
        LET c == get_market_consensus(g, TRUE)
            sharp == SharpSnapshotsOf(g)
            draw == IF IsNum(c.draw_probability) THEN c.draw_probability ELSE Zero
            total == RAdd(RAdd(MeanHome(sharp), MeanAway(sharp)), draw)
        IN c.kind = "ok" =>
               /\ RMul(c.home_probability, total) = MeanHome(sharp)
               /\ RMul(c.away_probability, total) = MeanAway(sharp)
               /\ RLt(One, total) =>
                      RAdd(RAdd(c.home_probability, c.away_probability), draw) = One

C10_RemoveVigFixesFair ==
    (calc.fn = "remove_vig" /\ calc.done) =>
        LET draw == IF IsNum(calc.draw_prob) THEN calc.draw_prob ELSE Zero
        IN RAdd(RAdd(calc.home_prob, calc.away_prob), draw) = One =>
               /\ calc.result.kind = "ok"
               /\ calc.result.home = calc.home_prob
               /\ calc.result.away = calc.away_prob
               /\ calc.result.draw = calc.draw_prob
               /\ calc.result.vig_removed = Zero

\* remove_vig has run on three non-zero probabilities that sum to 1
C10_Witness ==
    /\ calc.fn = "remove_vig"
    /\ calc.done
    /\ IsNum(calc.draw_prob)
    /\ calc.home_prob # Zero /\ calc.away_prob # Zero /\ calc.draw_prob # Zero
    /\ RAdd(RAdd(calc.home_prob, calc.away_prob), calc.draw_prob) = One

\* the (bookmaker, outcome, offered odds) triples of the soft snapshots of a
\* game whose edge over the consensus reaches the threshold, over every
\* outcome the snapshot quotes
QualifyingPairs(g, min_edge_percent) ==
    LET c == get_market_consensus(g, TRUE)
        Quotes(i) ==
            {<<"Home", snapshots[i].home_odds, c.home_probability>>,
             <<"Away", snapshots[i].away_odds, c.away_probability>>}
            \cup (IF IsNum(snapshots[i].draw_odds) /\ Truthy(c.draw_probability)
                  THEN {<<"Draw", snapshots[i].draw_odds, c.draw_probability>>}
                  ELSE {})
    IN UNION {{<<snapshots[i].bookmaker, q[1], q[2]>> :
                  q \in {x \in Quotes(i) :
                            RLe(min_edge_percent, EdgePercent(x[2], x[3]))}} :
              i \in SoftSnapshotsOf(g)}

\* the triples the edge detector returned
FlaggedPairs(list) ==
    {<<list[k].bookmaker, list[k].selection, list[k].offered_odds>> :
        k \in 1..Len(list)}

\* C11: for a game with a consensus the edge detector returns exactly the
\* (soft snapshot, outcome) pairs, home, away and quoted draw, whose
\* edge_percent is at least min_edge_percent, and never a sharp bookmaker.
C11_DetectorFlagsEveryQualifyingPair ==
    \A g \in GameIds : \A e \in MinEdgePercents :
        LET found == identify_soft_book_discrepancies(g, e)
        IN (get_market_consensus(g, TRUE).kind = "ok" /\ found.kind = "ok") =>
               /\ FlaggedPairs(found.list) = QualifyingPairs(g, e)
               /\ \A k \in 1..Len(found.list) :
                      found.list[k].bookmaker \in SOFT_BOOKS

\* odds a soft bookmaker may offer on one outcome, lowest first
OfferedOdds == {Num(3, 2), Num(9, 5), Num(2, 1), Num(3, 1)}

\* the consensus probabilities of a game the detector divides by
ConsensusProbabilities(g) ==
    LET c == get_market_consensus(g, TRUE)
    IN IF c.kind = "ok"
       THEN {c.home_probability, c.away_probability} \ {Zero}
       ELSE {}

\* C12: against the consensus of any game, a higher offered price never has
\* a lower edge_percent, so a pair flagged at some price is flagged at every
\* higher price.
C12_EdgeMonotonicInOfferedOdds ==
    \A g \in GameIds : \A p \in ConsensusProbabilities(g) :
        \A lo, hi \in OfferedOdds :
            RLe(lo, hi) =>
                /\ RLe(EdgePercent(lo, p), EdgePercent(hi, p))
                /\ \A e \in MinEdgePercents :
                       RLe(e, EdgePercent(lo, p)) => RLe(e, EdgePercent(hi, p))

\* a call of calculate_kelly_bet has returned
KellyReturned == calc.fn = "calculate_kelly_bet" /\ calc.done

\* f* = (b*p - q)/b with b = odds - 1 and q = 1 - p, for odds # 1
FullKelly(win_prob, odds) ==
    LET b == RSub(odds, One)
        q == RSub(One, win_prob)
    IN RDiv(RSub(RMul(b, win_prob), q), b)

StakeInRange ==
    /\ RLe(Zero, calc.result)
    /\ RLe(calc.result, RMul(calc.bankroll, MAX_BET_PERCENT))

\* C13 as stated: for any probability, odds, bankroll and kelly_fraction the
\* stake is never negative and never above bankroll * MAX_BET_PERCENT.
C13_StakeInRangeAnyBankroll ==
    KellyReturned => StakeInRange

\* C13: for any probability, odds and kelly_fraction and any bankroll >= 0
\* the stake is never negative and never above bankroll * MAX_BET_PERCENT.
C13_StakeInRange ==
    (KellyReturned /\ RLe(Zero, calc.bankroll)) => StakeInRange

\* the cap binds: probability 1 at odds 1.01 with the whole Kelly fraction
C13_Witness ==
    /\ KellyReturned
    /\ calc.win_prob = One
    /\ calc.odds = Num(101, 100)
    /\ calc.bankroll = DEFAULT_BANKROLL
    /\ calc.kelly_fraction = One
    /\ calc.result = RMul(DEFAULT_BANKROLL, MAX_BET_PERCENT)

\* C14: when the full-Kelly fraction f* is negative the stake is 0 for every
\* kelly_fraction.
C14_NoEdgeNoStake ==
    (KellyReturned /\ calc.odds # One) =>
        (RLt(FullKelly(calc.win_prob, calc.odds), Zero) => calc.result = Zero)

\* C15: for bankroll >= 0 and kelly_fraction in [0, 1] the stake is 0 at
\* odds <= 1 and min(bankroll * max(0, f*) * kelly_fraction,
\* bankroll * MAX_BET_PERCENT) otherwise; 1000, 0.25, 0.60 and 1.80 give 25.
C15_StakeFormula ==
    (/\ KellyReturned
     /\ RLe(Zero, calc.bankroll)
     /\ RLe(Zero, calc.kelly_fraction) /\ RLe(calc.kelly_fraction, One)) =>
        /\ RLe(calc.odds, One) => calc.result = Zero
        /\ RLt(One, calc.odds) =>
               calc.result =
                   RMin(RMul(RMul(calc.bankroll,
                                  RMax(Zero, FullKelly(calc.win_prob, calc.odds))),
                             calc.kelly_fraction),
                        RMul(calc.bankroll, MAX_BET_PERCENT))
        /\ (/\ calc.bankroll = Num(1000, 1) /\ calc.kelly_fraction = Num(1, 4)
            /\ calc.win_prob = Num(3, 5) /\ calc.odds = Num(9, 5)) =>
               calc.result = Num(25, 1)

\* the worked example has been computed
C15_Witness ==
    /\ KellyReturned
    /\ calc.bankroll = Num(1000, 1) /\ calc.kelly_fraction = Num(1, 4)
    /\ calc.win_prob = Num(3, 5) /\ calc.odds = Num(9, 5)
    /\ calc.result = Num(25, 1)

\* the ValueBets a scan has created: the rows it committed, and for the scan
\* in progress the ones it has added to its session
BetsOfScan(k) ==
    LET OfScan(row) == row.scan = k
        rows == SelectSeq(value_bets, OfScan)
    IN [i \in 1..Len(rows) |-> rows[i].bet]

CreatedBy(k) ==
    {BetsOfScan(k)[i] : i \in 1..Len(BetsOfScan(k))}
    \cup (IF k = Len(scans) /\ scans[k].outcome = "running"
          THEN {scan.pending[i] : i \in 1..Len(scan.pending)}
          ELSE {})

\* the game was upcoming when scan k ran its query
UpcomingAt(k, g) ==
    /\ g \in 1..Len(scans[k].games)
    /\ scans[k].games[g].result = "None"
    /\ scans[k].games[g].commence_time > scans[k].at

Rerun(k) ==
    /\ k + 1 <= Len(scans)
    /\ scans[k].outcome = "returned"
    /\ scans[k + 1].outcome = "returned"
    /\ scans[k].min_edge_percent = scans[k + 1].min_edge_percent
    /\ scans[k].min_probability = scans[k + 1].min_probability
    /\ scans[k].games = scans[k + 1].games
    /\ scans[k].snapshot_count = scans[k + 1].snapshot_count

\* no game started between the clock readings of scans k and k + 1
NoneStartedBetween(k) ==
    \A g \in 1..Len(scans[k].games) :
        (scans[k].games[g].commence_time > scans[k].at)
            <=> (scans[k].games[g].commence_time > scans[k + 1].at)

\* the second scan returned the first scan's batch and both are stored, the
\* second as rows of its own
SameBatchTwice(k) ==
    /\ scans[k + 1].batch = scans[k].batch
    /\ BetsOfScan(k) = scans[k].batch
    /\ BetsOfScan(k + 1) = scans[k + 1].batch

\* C17 as stated: a scan re-run with unchanged games and snapshots returns
\* the same batch and persists it again, as many new rows as the first time.
C17_RerunSameBatchAnyTime ==
    \A k \in 1..Len(scans) : Rerun(k) => SameBatchTwice(k)

\* C17: a scan re-run with unchanged games and snapshots, no game having
\* started in between, returns the same batch and persists it again, as
\* many new rows as the first time.
C17_RerunSameBatch ==
    \A k \in 1..Len(scans) : (Rerun(k) /\ NoneStartedBetween(k)) => SameBatchTwice(k)

\* a re-run has stored a non-empty batch a second time
C17_Witness ==
    \E k \in 1..Len(scans) :
        /\ Rerun(k)
        /\ NoneStartedBetween(k)
        /\ scans[k].batch # <<>>
        /\ Len(value_bets) >= 2 * Len(scans[k].batch)

\* C18: the market_probability of every ValueBet is the reciprocal of its
\* offered_odds, the offering bookmaker's own implied probability.
C18_MarketProbabilityIsOfferingBook ==
    \A k \in 1..Len(scans) : \A bet \in CreatedBy(k) :
        bet.market_probability = Reciprocal(bet.offered_odds)

\* C19: computing the consensus of a game never raises, and the consensus
\* carries a draw probability exactly when some stored sharp snapshot of the
\* game carries a draw price.
C19_DrawIffSomeSharpDraw ==
    \A g \in GameIds :
        LET c == get_market_consensus(g, TRUE)
        IN /\ c.kind # "raise"
           /\ c.kind = "ok" =>
                  (IsNum(c.draw_probability) <=>
                       \E i \in SharpSnapshotsOf(g) : IsNum(snapshots[i].draw_odds))

\* C20: every ValueBet a scan creates has fair_odds = 1 / my_probability and
\* edge_percent = (offered_odds / fair_odds - 1) * 100.
C20_ValueBetInternallyConsistent ==
    \A k \in 1..Len(scans) : \A bet \in CreatedBy(k) :
        /\ bet.fair_odds = Reciprocal(bet.my_probability)
        /\ bet.edge_percent =
               RMul(RSub(RDiv(bet.offered_odds, bet.fair_odds), One), Hundred)

\* C21: no division by zero: every stored implied probability was computed
\* from a non-zero price, and for every game whose soft snapshots the detector
\* walks, the consensus home and away probabilities it divides by are not zero.
C21_NoDivisionByZero ==
    /\ \A i \in SnapshotIds :
           /\ snapshots[i].home_odds # Zero
           /\ snapshots[i].away_odds # Zero
           /\ IsNum(snapshots[i].draw_implied_prob) => snapshots[i].draw_odds # Zero
    /\ \A g \in GameIds :
           LET consensus == get_market_consensus(g, TRUE)
           IN (consensus.kind = "ok" /\ SoftSnapshotsOf(g) # {}) =>
                  /\ consensus.home_probability # Zero
                  /\ consensus.away_probability # Zero

\* C22: the store never holds two OddsSnapshot rows with the same game,
\* bookmaker and snapshot timestamp: a write that would duplicate a stored
\* row is rejected.
C22_NoDuplicateSnapshot ==
    \A i, j \in SnapshotIds :
        (/\ snapshots[i].game_id = snapshots[j].game_id
         /\ snapshots[i].bookmaker = snapshots[j].bookmaker
         /\ snapshots[i].snapshot_time = snapshots[j].snapshot_time) => i = j

\* a step of an ingest_odds call, and a step of a find_value_bets call
IngestStep == ing' # ing
ScanStep == scan' # scan \/ scans' # scans

\* every stored game and snapshot is still there after the step, the
\* snapshot as it was and the game with its odds_api_id and result
TablesOnlyGrow ==
    /\ Len(games') >= Len(games)
    /\ \A g \in GameIds :
           /\ games'[g].odds_api_id = games[g].odds_api_id
           /\ games'[g].result = games[g].result
    /\ Len(snapshots') >= Len(snapshots)
    /\ \A i \in SnapshotIds : snapshots'[i] = snapshots[i]

\* C23: a step of ingest leaves the value_bets table as it is, a step of scan
\* leaves the games and snapshots tables as they are, and no step of either
\* removes or rewrites a stored snapshot, removes a game or changes a game's
\* odds_api_id or result.
C23_Frame ==
    [][/\ IngestStep => value_bets' = value_bets
       /\ ScanStep => games' = games /\ snapshots' = snapshots
       /\ TablesOnlyGrow]_vars

\* a scan has stored ValueBets, and ingestion has since added snapshots to a
\* game the scan saw and created a game it did not see
C23_Witness ==
    \E k \in 1..Len(scans) :
        /\ scans[k].outcome = "returned"
        /\ scans[k].batch # <<>>
        /\ value_bets # <<>>
        /\ Len(games) > Len(scans[k].games)
        /\ \E i \in SnapshotIds :
               /\ i > scans[k].snapshot_count
               /\ snapshots[i].game_id \in 1..Len(scans[k].games)

====
